---- MODULE Spec2Model ----
(***************************************************************************)
(* KeyString (src/value/keystring.rs): an immutable key stored in a shared *)
(* byte buffer (bytes::Bytes) and read as text.                            *)
(*                                                                         *)
(* A text value (str / String) is the sequence of its characters; a key   *)
(* value is the content of its buffer, a sequence of bytes 0..255.        *)
(* Three specifications are given:                                         *)
(*   Spec      the life of keys in memory: buffers with reference counts,  *)
(*             handles held by threads, owned copies;                      *)
(*   ShareSpec the operations of Spec that share a key between threads,    *)
(*             with the fairness of a drop that has begun;                 *)
(*   PureSpec  the value-level functions applied to bounded inputs.        *)
(***************************************************************************)
EXTENDS Integers, Sequences, FiniteSets, TLC

\* ------------------------------------------------------------------ bounds
\* longest input text of PureSpec, in characters
MaxChars == 2
\* longest raw byte sequence offered to deserialization in PureSpec
MaxRaw == 2
\* buffers that can be allocated at the same time in Spec
MaxBufs == 2
\* handles (keys and shared bytes) alive at the same time in Spec
MaxHandles == 2
\* threads that use the handles in Spec
NThreads == 2

\* ------------------------------------------------------- text and UTF-8
\* The characters used to build input texts: one of each UTF-8 width
\* ('a', U+00E9, U+20AC, U+1F600).
CodePoints == {97, 233, 8364, 128512}

\* Bytes used to build raw (possibly invalid) byte sequences.
RawByteValues == {97, 195, 169, 255}

\* char::encode_utf8
EncodeChar(c) ==
    IF c < 128 THEN <<c>>
    ELSE IF c < 2048 THEN <<192 + (c \div 64), 128 + (c % 64)>>
    ELSE IF c < 65536 THEN
        <<224 + (c \div 4096), 128 + ((c \div 64) % 64), 128 + (c % 64)>>
    ELSE <<240 + (c \div 262144), 128 + ((c \div 4096) % 64),
           128 + ((c \div 64) % 64), 128 + (c % 64)>>

RECURSIVE EncodeText(_)
\* the UTF-8 bytes of the text whose characters are cs
EncodeText(cs) ==
    IF cs = <<>> THEN <<>> ELSE EncodeChar(Head(cs)) \o EncodeText(Tail(cs))

SeqsUpTo(S, n) == UNION {[1..m -> S] : m \in 0..n}

\* A text value (str, String) is the sequence of its characters; its bytes in
\* memory are EncodeText of it. The input texts of PureSpec:
\* (with "caf" U+00E9 added: byte length 5, 4 characters)
Texts == SeqsUpTo(CodePoints, MaxChars) \cup {<<99, 97, 102, 233>>}

\* the input text of Spec: U+00E9, a character of two bytes
SampleTexts == {<<233>>}

\* raw byte sequences, valid UTF-8 or not
RawBytes == SeqsUpTo(RawByteValues, MaxRaw)

\* the raw byte sequences offered in Spec: U+00E9, its lead byte alone, and a
\* byte that occurs in no UTF-8 text
SampleRaw == {<<195, 169>>, <<195>>, <<255>>}

IsCont(b) == b >= 128 /\ b <= 191

\* number of bytes of the well-formed UTF-8 sequence that starts bs, 0 if none
\* (the validation of core::str::from_utf8)
CharWidth(bs) ==
    LET n == Len(bs)
        b0 == bs[1]
    IN  IF b0 < 128 THEN 1
        ELSE IF b0 >= 194 /\ b0 <= 223 THEN
            IF n >= 2 /\ IsCont(bs[2]) THEN 2 ELSE 0
        ELSE IF b0 >= 224 /\ b0 <= 239 THEN
            IF /\ n >= 3
               /\ IsCont(bs[2])
               /\ IsCont(bs[3])
               /\ (b0 = 224 => bs[2] >= 160)
               /\ (b0 = 237 => bs[2] <= 159)
            THEN 3 ELSE 0
        ELSE IF b0 >= 240 /\ b0 <= 244 THEN
            IF /\ n >= 4
               /\ IsCont(bs[2])
               /\ IsCont(bs[3])
               /\ IsCont(bs[4])
               /\ (b0 = 240 => bs[2] >= 144)
               /\ (b0 = 244 => bs[2] <= 143)
            THEN 4 ELSE 0
        ELSE 0

RECURSIVE ValidUtf8(_)
ValidUtf8(bs) ==
    IF bs = <<>> THEN TRUE
    ELSE LET w == CharWidth(bs)
         IN  w > 0 /\ ValidUtf8(SubSeq(bs, w + 1, Len(bs)))

\* the character a well-formed UTF-8 sequence of width w encodes
DecodeChar(bs, w) ==
    IF w = 1 THEN bs[1]
    ELSE IF w = 2 THEN (bs[1] - 192) * 64 + (bs[2] - 128)
    ELSE IF w = 3 THEN (bs[1] - 224) * 4096 + (bs[2] - 128) * 64 + (bs[3] - 128)
    ELSE (bs[1] - 240) * 262144 + (bs[2] - 128) * 4096
         + (bs[3] - 128) * 64 + (bs[4] - 128)

RECURSIVE Chars(_)
\* str::chars of valid UTF-8 bytes
Chars(bs) ==
    IF bs = <<>> THEN <<>>
    ELSE LET w == CharWidth(bs)
         IN  <<DecodeChar(bs, w)>> \o Chars(SubSeq(bs, w + 1, Len(bs)))

\* --------------------------------------------- value-level functions
\* A key value is the content of the Bytes it wraps.

\* what an unchecked read of ill-formed bytes may yield (undefined behaviour):
\* any of these texts
UndefinedTexts == {<<>>, <<65533>>}

\* str::to_string / Cow::into_owned: a copy of the characters
to_string(s) == s

\* From<String>: the String's UTF-8 buffer becomes the Bytes
From_String(s) == EncodeText(s)

\* From<&str>: s.to_string().into()
From_str(s) == From_String(to_string(s))

\* From<Cow<str>>: s.into_owned().into(); cow is [owned, s]
From_Cow(cow) == From_String(IF cow.owned THEN cow.s ELSE to_string(cow.s))

\* as_str: from_utf8_unchecked(&self.0); the set of texts the read can yield
as_str(k) == IF ValidUtf8(k) THEN {Chars(k)} ELSE UndefinedTexts

\* the number of characters of the text in the buffer
CharCount(k) == IF ValidUtf8(k) THEN Len(Chars(k)) ELSE 0

\* len: self.0.len()
len(k) == Len(k)

\* is_empty: self.0.is_empty()
is_empty(k) == Len(k) = 0

\* self.0.to_vec(): a copy of the bytes
to_vec(k) == [i \in 1..Len(k) |-> k[i]]

\* impl Hash for str: the bytes of the text, then the byte 0xff
StrHash(s) ==
    <<[call |-> "write", arg |-> EncodeText(s)],
      [call |-> "write_u8", arg |-> <<255>>]>>

\* impl Hash for [u8], the hash Bytes itself has: the length, then the bytes
SliceHash(k) ==
    <<[call |-> "write_usize", arg |-> <<Len(k)>>],
      [call |-> "write", arg |-> k]>>

\* hash with the derived implementation in place of the explicit one
HashDerived(k) == {SliceHash(k)}

\* impl Hash for KeyString: self.as_str().hash(state); the calls the hasher receives
hash(k) == {StrHash(v) : v \in as_str(k)}

\* serialization of the buffer as a byte array
SerializeBytes(k) == {[kind |-> "bytes", val |-> k]}

\* serialize: serializer.serialize_str(self.as_str()); the value emitted
serialize(k) == {[kind |-> "str", val |-> v] : v \in as_str(k)}

Ok(v) == [ok |-> TRUE, val |-> v]
Err == [ok |-> FALSE, val |-> <<>>]

\* the source values a deserializer can hold
SourceValues(texts, raws) ==
    {[kind |-> "str", val |-> s] : s \in texts}
    \cup {[kind |-> "bytes", val |-> r] : r \in raws}
    \cup {[kind |-> "u64", val |-> <<n>>] : n \in {42}}
    \cup {[kind |-> "bool", val |-> <<n>>] : n \in {0, 1}}

\* String::deserialize(deserializer): a text scalar is taken as it is, a byte
\* sequence if it is valid UTF-8, anything else is an error
StringDeserialize(src) ==
    IF src.kind = "str" THEN Ok(src.val)
    ELSE IF src.kind = "bytes" /\ ValidUtf8(src.val) THEN Ok(Chars(src.val))
    ELSE Err

\* deserialization that takes the source's bytes without the text step
DeserializeUnchecked(src) ==
    IF src.kind = "str" THEN Ok(EncodeText(src.val))
    ELSE IF src.kind = "bytes" THEN Ok(src.val)
    ELSE Err

\* deserialize: let string = String::deserialize(deserializer)?; Ok(string.into())
deserialize(src) ==
    LET string == StringDeserialize(src)
    IN  IF string.ok THEN Ok(From_String(string.val)) ELSE Err

\* the values handed over by the scripting runtime
LuaValues(raws) ==
    {[kind |-> "string", val |-> r] : r \in raws}
    \cup {[kind |-> "integer", val |-> <<n>>] : n \in {42}}
    \cup {[kind |-> "boolean", val |-> <<n>>] : n \in {0, 1}}

RECURSIVE Digits(_)
\* the decimal digits of n as characters
Digits(n) == IF n < 10 THEN <<48 + n>> ELSE Digits(n \div 10) \o <<48 + (n % 10)>>

\* String::from_lua: a string, or a number coerced to one, that is valid UTF-8
StringFromLua(v) ==
    IF v.kind = "string" THEN
        IF ValidUtf8(v.val) THEN Ok(Chars(v.val)) ELSE Err
    ELSE IF v.kind = "integer" THEN Ok(Digits(v.val[1]))
    ELSE Err

\* a conversion that takes the bytes of the runtime's string as they are
FromLuaUnchecked(v) == IF v.kind = "string" THEN Ok(v.val) ELSE Err

\* from_lua: String::from_lua(value, lua).map(Self::from)
from_lua(v) ==
    LET r == StringFromLua(v)
    IN  IF r.ok THEN Ok(From_String(r.val)) ELSE Err

\* into_lua: self.as_str().into_lua(lua): a string of the runtime
into_lua(k) == {[kind |-> "string", val |-> EncodeText(v)] : v \in as_str(k)}

\* From<KeyString> for String: s.as_str().to_string()
String_from(k) == {to_string(v) : v \in as_str(k)}

\* the comparisons the type implements: (left type, right type)
\* derive(PartialEq) gives KeyString == KeyString, impl PartialEq<str> for
\* KeyString gives KeyString == str; str == str is the text type's own
PartialEqImpls == {<<"KeyString", "KeyString">>, <<"KeyString", "str">>, <<"str", "str">>}

\* comparison of the lengths alone
EqLen(k, that) == {Len(k) = Len(that)}

\* impl PartialEq<str> for KeyString: self.as_str()[..].eq(that)
eq_str(k, that) == {v = that : v \in as_str(k)}

\* derive(PartialEq, Eq) on KeyString(Bytes): the two byte slices are equal
eq(k1, k2) == k1 = k2

\* lexicographic comparison of two sequences of integers: "less", "equal", "greater"
RECURSIVE SeqCmp(_, _)
SeqCmp(x, y) ==
    IF x = <<>> THEN (IF y = <<>> THEN "equal" ELSE "less")
    ELSE IF y = <<>> THEN "greater"
    ELSE IF Head(x) < Head(y) THEN "less"
    ELSE IF Head(x) > Head(y) THEN "greater"
    ELSE SeqCmp(Tail(x), Tail(y))

\* a byte read as a signed 8-bit integer
AsSigned(b) == IF b >= 128 THEN b - 256 ELSE b

\* comparison of the buffers as sequences of signed bytes
CmpSigned(k1, k2) ==
    SeqCmp([i \in 1..Len(k1) |-> AsSigned(k1[i])], [i \in 1..Len(k2) |-> AsSigned(k2[i])])

\* derive(PartialOrd, Ord) on KeyString(Bytes): the byte slices, lexicographically
cmp(k1, k2) == SeqCmp(k1, k2)

\* standard ordering of two texts: character by character
StrCmp(a, b) == SeqCmp(a, b)

\* ------------------------------------------------------------- state
VARIABLES
    heap,     \* buffer id -> the shared storage of a Bytes: state, content, count
    handles,  \* buffer id -> how many KeyString and how many Bytes refer to it
    owned,    \* an owned copy taken out of a key: a String or a Box<[u8]>
    freeing,  \* the buffers whose count a thread has taken to 0 and is about to free
    last,     \* the last function applied or the last read, and what it returned
    input     \* PureSpec: the inputs the functions are applied to

vars == <<heap, handles, owned, freeing, last, input>>

BufIds == 1..MaxBufs

FreeBuf == [st |-> "free", data |-> <<>>, rc |-> 0, init |-> <<>>]
NoOwned == [kind |-> "none", loc |-> 0, data |-> <<>>]
NoRead == [op |-> "none"]
NoInput == [a |-> <<>>, b |-> <<>>, src |-> [kind |-> "str", val |-> <<>>]]

\* no key exists yet
InitMemory ==
    /\ heap = [b \in BufIds |-> FreeBuf]
    /\ handles = [b \in BufIds |-> [key |-> 0, bytes |-> 0]]
    /\ owned = NoOwned
    /\ freeing = {}
    /\ last = NoRead

Init == InitMemory /\ input = NoInput

\* ------------------------------------------ PureSpec: functions applied
\* key(s): the key any of the text constructors makes of the text s
KeysOf(s) ==
    {From_str(s), From_String(s),
     From_Cow([owned |-> TRUE, s |-> s]), From_Cow([owned |-> FALSE, s |-> s])}

\* Borrow<str>::borrow: self.as_str()
borrow(k) == as_str(k)

\* char::len_utf8
len_utf8(c) == IF c < 128 THEN 1 ELSE IF c < 2048 THEN 2 ELSE IF c < 65536 THEN 3 ELSE 4

RECURSIVE StrByteLen(_)
\* str::len: the length of the text in bytes
StrByteLen(s) == IF s = <<>> THEN 0 ELSE len_utf8(Head(s)) + StrByteLen(Tail(s))

\* a comparison left == right between values of the types lt and rt
Compare(lt, rt, left, right) ==
    IF <<lt, rt>> \notin PartialEqImpls THEN {[supported |-> FALSE, val |-> FALSE]}
    ELSE IF lt = "KeyString" /\ rt = "KeyString" THEN
        {[supported |-> TRUE, val |-> eq(left, right)]}
    ELSE IF lt = "KeyString" /\ rt = "str" THEN
        {[supported |-> TRUE, val |-> v] : v \in eq_str(left, right)}
    ELSE {[supported |-> TRUE, val |-> left = right]}

\* the inputs: two texts a and b with the text scalar of a as the source value,
\* or a source value that is not a text scalar
PureInputs ==
    {[a |-> a, b |-> b, src |-> [kind |-> "str", val |-> a]] : a \in Texts, b \in Texts}
    \cup {[a |-> <<>>, b |-> <<>>, src |-> v] : v \in SourceValues({}, RawBytes)}

PureInit == InitMemory /\ input \in PureInputs

Apply_from ==
    /\ \E path \in {"&str", "String", "Cow::Owned", "Cow::Borrowed"} :
        LET s == input.a
            k == IF path = "&str" THEN From_str(s)
                 ELSE IF path = "String" THEN From_String(s)
                 ELSE From_Cow([owned |-> path = "Cow::Owned", s |-> s])
        IN  last' = [op |-> "from", path |-> path, arg |-> s, out |-> Ok(k)]
    /\ UNCHANGED <<heap, handles, owned, freeing, input>>

Apply_hash ==
    /\ \E k \in KeysOf(input.a) : \E feed \in hash(k), v \in borrow(k) :
        last' = [op |-> "hash", arg |-> input.a, out |-> feed, borrowed |-> v]
    /\ UNCHANGED <<heap, handles, owned, freeing, input>>

Apply_roundtrip ==
    /\ \E k \in KeysOf(input.a) : \E w \in serialize(k) :
        last' = [op |-> "roundtrip", arg |-> input.a, key |-> k, wire |-> w,
                 out |-> deserialize(w)]
    /\ UNCHANGED <<heap, handles, owned, freeing, input>>

Apply_deserialize ==
    /\ last' = [op |-> "deserialize", arg |-> input.src, out |-> deserialize(input.src)]
    /\ UNCHANGED <<heap, handles, owned, freeing, input>>

Apply_eq ==
    /\ \E k \in KeysOf(input.a), form \in {"key == text", "text == key", "text == key.as_str()"} :
        LET t == input.b
            results ==
                IF form = "key == text" THEN Compare("KeyString", "str", k, t)
                ELSE IF form = "text == key" THEN Compare("str", "KeyString", t, k)
                ELSE UNION {Compare("str", "str", t, v) : v \in as_str(k)}
        IN  \E r \in results :
                last' = [op |-> "eq", form |-> form, arg |-> input.a, that |-> t, out |-> r]
    /\ UNCHANGED <<heap, handles, owned, freeing, input>>

Apply_cmp ==
    /\ \E ka \in KeysOf(input.a), kb \in KeysOf(input.b) :
        last' = [op |-> "cmp", a |-> input.a, b |-> input.b, out |-> cmp(ka, kb),
                 equal |-> eq(ka, kb)]
    /\ UNCHANGED <<heap, handles, owned, freeing, input>>

Apply_len ==
    /\ \E k \in KeysOf(input.a) :
        last' = [op |-> "len", arg |-> input.a, out |-> len(k), empty |-> is_empty(k)]
    /\ UNCHANGED <<heap, handles, owned, freeing, input>>

PureNext ==
    \/ Apply_from
    \/ Apply_hash
    \/ Apply_roundtrip
    \/ Apply_deserialize
    \/ Apply_eq
    \/ Apply_cmp
    \/ Apply_len

PureSpec == PureInit /\ [][PureNext]_vars

\* ------------------------------------------------ Spec: keys in memory
\* a thread is free to start an operation: not all of them are inside a drop
Idle == Cardinality(freeing) < NThreads

FreeIds == {b \in BufIds : heap[b].st = "free"}

RECURSIVE SumHandles(_)
SumHandles(B) ==
    IF B = {} THEN 0
    ELSE LET b == CHOOSE x \in B : TRUE
         IN  handles[b].key + handles[b].bytes + SumHandles(B \ {b})

TotalHandles == SumHandles(BufIds)

\* what reading the buffer b yields: its content, or anything once it is freed
ReadBuf(b) == IF heap[b].st = "live" THEN {heap[b].data} ELSE {<<>>, <<255>>}

\* Bytes::from(Vec<u8>) wrapped in KeyString: a new buffer holding k, count 1
NewKey(k) ==
    /\ Idle
    /\ FreeIds # {}
    /\ TotalHandles < MaxHandles
    /\ LET b == CHOOSE x \in FreeIds : \A y \in FreeIds : x <= y
       IN  /\ heap' = [heap EXCEPT ![b] = [st |-> "live", data |-> k, rc |-> 1, init |-> k]]
           /\ handles' = [handles EXCEPT ![b].key = @ + 1]
           /\ last' = NoRead
    /\ UNCHANGED <<freeing, input>>

\* a conversion that failed: no key, nothing changes
NoKey ==
    /\ Idle
    /\ last' = NoRead
    /\ UNCHANGED <<heap, handles, freeing, input>>

Call_From_str ==
    \E s \in SampleTexts : NewKey(From_str(s)) /\ UNCHANGED owned

Call_From_String ==
    \E s \in SampleTexts : NewKey(From_String(s)) /\ UNCHANGED owned

\* From<String> of the String taken out of a key earlier (and possibly changed)
Call_From_owned_String ==
    /\ owned.kind = "String"
    /\ NewKey(From_String(owned.data))
    /\ owned' = NoOwned

Call_From_Cow ==
    \E s \in SampleTexts, o \in BOOLEAN :
        NewKey(From_Cow([owned |-> o, s |-> s])) /\ UNCHANGED owned

Call_deserialize ==
    \E src \in SourceValues(SampleTexts, SampleRaw) :
        LET r == deserialize(src)
        IN  /\ IF r.ok THEN NewKey(r.val) ELSE NoKey
            /\ UNCHANGED owned

Call_from_lua ==
    \E v \in LuaValues(SampleRaw) :
        LET r == from_lua(v)
        IN  /\ IF r.ok THEN NewKey(r.val) ELSE NoKey
            /\ UNCHANGED owned

\* Arbitrary::arbitrary: String::arbitrary(g).into()
Call_arbitrary ==
    \E s \in SampleTexts : NewKey(From_String(s)) /\ UNCHANGED owned

\* String::shrink: the texts with one character removed
Shrinks(s) == {SubSeq(s, 1, i - 1) \o SubSeq(s, i + 1, Len(s)) : i \in 1..Len(s)}

\* Arbitrary::shrink: self.as_str().to_string().shrink().map(Into::into)
Call_shrink ==
    \E b \in BufIds :
        /\ handles[b].key > 0
        /\ \E k \in ReadBuf(b) : \E v \in as_str(k) : \E s \in Shrinks(to_string(v)) :
               NewKey(From_String(s))
        /\ UNCHANGED owned

\* a clone of the buffer that allocates a copy of the content
BytesDeepCopy(b) ==
    IF FreeIds = {} THEN [buf |-> b, heap |-> [heap EXCEPT ![b].rc = @ + 1]]
    ELSE LET n == CHOOSE x \in FreeIds : TRUE
         IN  [buf |-> n,
              heap |-> [heap EXCEPT ![n] = [st |-> "live", data |-> heap[b].data,
                                            rc |-> 1, init |-> heap[b].data]]]

\* a clone that shares the buffer and leaves the count as it is
BytesCloneUncounted(b) == [buf |-> b, heap |-> heap]

\* Bytes::clone: the buffer the new handle refers to and the memory afterwards:
\* the same buffer, its reference count raised by one
BytesClone(b) == [buf |-> b, heap |-> [heap EXCEPT ![b].rc = @ + 1]]

\* derive(Clone) on KeyString (kind "key"), Bytes::clone on a shared Bytes
Call_clone ==
    \E b \in BufIds, kind \in {"key", "bytes"} :
        /\ Idle
        /\ handles[b][kind] > 0
        /\ TotalHandles < MaxHandles
        /\ LET r == BytesClone(b)
           IN  /\ heap' = r.heap
               /\ handles' = [handles EXCEPT ![r.buf][kind] = @ + 1]
               /\ last' = NoRead
        /\ UNCHANGED <<owned, freeing, input>>

\* to_bytes: self.0.clone()
Call_to_bytes ==
    \E b \in BufIds :
        /\ Idle
        /\ handles[b].key > 0
        /\ TotalHandles < MaxHandles
        /\ LET r == BytesClone(b)
           IN  /\ heap' = r.heap
               /\ handles' = [handles EXCEPT ![r.buf].bytes = @ + 1]
               /\ last' = NoRead
        /\ UNCHANGED <<owned, freeing, input>>

\* the end of a handle (Bytes::drop): the count goes down by one, and the thread
\* that took it from 1 to 0 goes on to free the buffer
Release(b, kind) ==
    /\ handles' = [handles EXCEPT ![b][kind] = @ - 1]
    /\ IF heap[b].st = "live"
       THEN /\ heap' = [heap EXCEPT ![b].rc = @ - 1]
            /\ freeing' = IF heap[b].rc = 1 THEN freeing \cup {b} ELSE freeing
       ELSE UNCHANGED <<heap, freeing>>

Call_drop ==
    \E b \in BufIds, kind \in {"key", "bytes"} :
        /\ Idle
        /\ handles[b][kind] > 0
        /\ Release(b, kind)
        /\ last' = NoRead
        /\ UNCHANGED <<owned, input>>

\* the second step of a drop that reached count 0: the buffer is given back
Free(b) ==
    /\ b \in freeing
    /\ heap' = [heap EXCEPT ![b] = FreeBuf]
    /\ freeing' = freeing \ {b}
    /\ last' = NoRead
    /\ UNCHANGED <<handles, owned, input>>

\* a read through a key handle: the operation op applied to the buffer's content
ReadKey(b, op, outs) ==
    /\ Idle
    /\ handles[b].key > 0
    /\ \E out \in outs : last' = [op |-> op, buf |-> b, out |-> out]
    /\ UNCHANGED <<heap, handles, owned, freeing, input>>

\* as_str, and what reads the key through it: hash, serialize, eq, Display,
\* AsRef, Deref, Borrow (len, is_empty and the derived comparisons read the same
\* buffer)
Call_as_str ==
    \E b \in BufIds : ReadKey(b, "as_str", UNION {as_str(k) : k \in ReadBuf(b)})

\* a read of the bytes through a shared Bytes obtained from to_bytes
Call_read_bytes ==
    \E b \in BufIds :
        /\ Idle
        /\ handles[b].bytes > 0
        /\ \E k \in ReadBuf(b) : last' = [op |-> "read_bytes", buf |-> b, out |-> k]
        /\ UNCHANGED <<heap, handles, owned, freeing, input>>

\* a boxed slice that is the key's own buffer instead of a copy of it
BoxAlias(b, k) == [kind |-> "Box", loc |-> b, data |-> <<>>]

\* self.0.to_vec().into(): a boxed slice with its own allocation
BoxCopy(b, k) == [kind |-> "Box", loc |-> 0, data |-> to_vec(k)]

\* into_bytes(self): the copy is made, then the key is dropped
Call_into_bytes ==
    \E b \in BufIds :
        /\ Idle
        /\ handles[b].key > 0
        /\ owned.kind = "none"
        /\ \E k \in ReadBuf(b) : owned' = BoxCopy(b, k)
        /\ Release(b, "key")
        /\ last' = NoRead
        /\ UNCHANGED input

\* From<KeyString> for String: the text is copied, then the key is dropped
Call_String_from ==
    \E b \in BufIds :
        /\ Idle
        /\ handles[b].key > 0
        /\ owned.kind = "none"
        /\ \E k \in ReadBuf(b) : \E s \in String_from(k) :
               owned' = [kind |-> "String", loc |-> 0, data |-> s]
        /\ Release(b, "key")
        /\ last' = NoRead
        /\ UNCHANGED input

\* into_lua(self): the text is handed to the runtime, then the key is dropped
Call_into_lua ==
    \E b \in BufIds :
        /\ Idle
        /\ handles[b].key > 0
        /\ \E k \in ReadBuf(b) : \E v \in into_lua(k) :
               last' = [op |-> "into_lua", buf |-> b, out |-> v.val]
        /\ Release(b, "key")
        /\ UNCHANGED <<owned, input>>

\* the bytes an owned value holds
OwnedData == IF owned.loc = 0 THEN owned.data ELSE heap[owned.loc].data

\* the owner of a boxed slice overwrites its first byte
Mutate_Box ==
    /\ Idle
    /\ owned.kind = "Box"
    /\ Len(OwnedData) > 0
    /\ OwnedData[1] # 255
    /\ IF owned.loc = 0
       THEN /\ owned' = [owned EXCEPT !.data[1] = 255]
            /\ UNCHANGED heap
       ELSE /\ heap' = [heap EXCEPT ![owned.loc].data[1] = 255]
            /\ UNCHANGED owned
    /\ last' = NoRead
    /\ UNCHANGED <<handles, freeing, input>>

\* the owner of a String removes its last character (String::pop)
Mutate_String ==
    /\ Idle
    /\ owned.kind = "String"
    /\ Len(owned.data) > 0
    /\ owned' = [owned EXCEPT !.data = SubSeq(@, 1, Len(@) - 1)]
    /\ last' = NoRead
    /\ UNCHANGED <<heap, handles, freeing, input>>

\* the owned value goes out of scope
Drop_owned ==
    /\ Idle
    /\ owned.kind # "none"
    /\ owned' = NoOwned
    /\ last' = NoRead
    /\ UNCHANGED <<heap, handles, freeing, input>>

Next ==
    \/ Call_From_str
    \/ Call_From_String
    \/ Call_From_owned_String
    \/ Call_From_Cow
    \/ Call_deserialize
    \/ Call_from_lua
    \/ Call_arbitrary
    \/ Call_shrink
    \/ Call_clone
    \/ Call_to_bytes
    \/ Call_as_str
    \/ Call_read_bytes
    \/ Call_into_bytes
    \/ Call_String_from
    \/ Call_into_lua
    \/ Call_drop
    \/ \E b \in BufIds : Free(b)
    \/ Mutate_Box
    \/ Mutate_String
    \/ Drop_owned

Spec == Init /\ [][Next]_vars

\* the operations that share a key between owners: construction, clone, to_bytes,
\* reads and drops
ShareNext ==
    \/ Call_From_str
    \/ Call_From_String
    \/ Call_From_Cow
    \/ Call_deserialize
    \/ Call_from_lua
    \/ Call_arbitrary
    \/ Call_shrink
    \/ Call_clone
    \/ Call_to_bytes
    \/ Call_as_str
    \/ Call_read_bytes
    \/ Call_drop
    \/ \E b \in BufIds : Free(b)

\* a thread that has taken a count to 0 goes on to free the buffer
ShareSpec == Init /\ [][ShareNext]_vars /\ \A b \in BufIds : WF_vars(Free(b))

\* ------------------------------------------------------------- claims
Count(b) == handles[b].key + handles[b].bytes

\* C1: in every reachable state the bytes of every live key are valid UTF-8,
\* whatever constructions, clones and conversions led there, and no read through
\* as_str has been applied to ill-formed bytes.
C1_ValidUtf8 ==
    /\ \A b \in BufIds : handles[b].key > 0 => \A k \in ReadBuf(b) : ValidUtf8(k)
    /\ last.op = "as_str" => EncodeText(last.out) = heap[last.buf].data

\* a key of a two-byte character that has been cloned, next to a second key
C1_Witness ==
    \E b \in BufIds :
        /\ handles[b].key = 2
        /\ heap[b].data = <<195, 169>>
        /\ heap[b].rc = 2

\* C2: hashing KeyString::from(s) hands the hasher exactly what hashing the text s
\* hands it, and the text the key lends through Borrow<str> is s.
C2_HashAgrees ==
    last.op = "hash" =>
        /\ last.out = StrHash(last.arg)
        /\ last.borrowed = last.arg
        /\ StrHash(last.borrowed) = last.out

C2_Witness ==
    /\ last.op = "hash"
    /\ last.arg = <<97, 8364>>
    /\ last.out[1].arg = <<97, 226, 130, 172>>

\* C3: serializing KeyString::from(s) emits the text scalar s, and deserializing
\* that scalar gives a key equal to the original.
C3_RoundTrip ==
    last.op = "roundtrip" =>
        /\ last.wire = [kind |-> "str", val |-> last.arg]
        /\ last.out.ok
        /\ eq(last.out.val, last.key)

C3_Witness ==
    /\ last.op = "roundtrip"
    /\ last.arg = <<99, 97, 102, 233>>
    /\ last.out.ok
    /\ last.out.val = <<99, 97, 102, 195, 169>>

\* C4 as stated: a key and a text compare directly with the key on either side,
\* and the result is true exactly when the contents are equal.
C4_EitherSide ==
    (last.op = "eq" /\ last.form \in {"key == text", "text == key"}) =>
        /\ last.out.supported
        /\ last.out.val <=> (last.arg = last.that)

\* C4 as amended: with the key on the left (KeyString == str) the comparison is
\* supported directly and is true exactly when the key's contents equal the text;
\* with the text on the left there is no direct comparison, the key is first
\* borrowed as text (s == key.as_str()), with the same result.
C4_KeyOnLeft ==
    last.op = "eq" =>
        IF last.form = "text == key" THEN ~last.out.supported
        ELSE /\ last.out.supported
             /\ last.out.val <=> (last.arg = last.that)

C4_Witness ==
    /\ last.op = "eq"
    /\ last.form = "key == text"
    /\ last.arg = <<97, 233>>
    /\ last.that = <<97, 233>>
    /\ last.out.val

\* C5: key(a) compares to key(b) as the text a compares to the text b, and the
\* keys are equal exactly when the texts are.
C5_Order ==
    last.op = "cmp" =>
        /\ last.out = StrCmp(last.a, last.b)
        /\ last.equal <=> (last.a = last.b)

\* a text that is a prefix of the other, which ends in a multi-byte character
C5_Witness ==
    /\ last.op = "cmp"
    /\ last.a = <<97>>
    /\ last.b = <<97, 233>>
    /\ last.out = "less"

\* C6 as stated: a source value that is not a text scalar is refused.
C6_NonTextFails ==
    (last.op = "deserialize" /\ last.arg.kind # "str") => ~last.out.ok

\* C6 as amended: deserialization succeeds exactly when the text deserialization
\* does, that is for a text scalar and for a byte sequence that is valid UTF-8; a
\* number, a boolean and ill-formed bytes give an error and no key; the text
\* constructors never fail.
C6_FailsAsTextDoes ==
    /\ last.op = "deserialize" =>
        /\ last.out.ok <=> StringDeserialize(last.arg).ok
        /\ last.out.ok <=>
               \/ last.arg.kind = "str"
               \/ last.arg.kind = "bytes" /\ ValidUtf8(last.arg.val)
        /\ last.out.ok => ValidUtf8(last.out.val)
        /\ ~last.out.ok => last.out.val = <<>>
    /\ last.op = "from" => last.out.ok /\ ValidUtf8(last.out.val)

\* a number is refused
C6_Witness ==
    /\ last.op = "deserialize"
    /\ last.arg.kind = "u64"
    /\ ~last.out.ok

\* C7: a clone of a key, and the Bytes that to_bytes returns, refer to the buffer
\* of the original: no buffer is allocated, no content changes, and the reference
\* count of that buffer goes up by one.
C7_SharesBuffer ==
    [][(Call_clone \/ Call_to_bytes) =>
        \E b \in BufIds :
            /\ Count(b) > 0
            /\ handles'[b].key + handles'[b].bytes = Count(b) + 1
            /\ \A c \in BufIds \ {b} : handles'[c] = handles[c]
            /\ \A c \in BufIds :
                /\ heap'[c].st = heap[c].st
                /\ heap'[c].data = heap[c].data
                /\ heap'[c].rc = IF c = b THEN heap[c].rc + 1 ELSE heap[c].rc]_vars

\* a key and the shared bytes taken from it, on one buffer
C7_Witness ==
    \E b \in BufIds :
        /\ handles[b].key = 1
        /\ handles[b].bytes = 1
        /\ heap[b].rc = 2
        /\ Cardinality({c \in BufIds : heap[c].st = "live"}) = 1

\* C8: len is the length of the text in bytes, is_empty is true exactly for the
\* empty text, that is exactly when len is 0.
C8_ByteLength ==
    last.op = "len" =>
        /\ last.out = StrByteLen(last.arg)
        /\ last.empty <=> (last.arg = <<>>)
        /\ last.empty <=> (last.out = 0)

\* "caf" U+00E9: 4 characters, 5 bytes
C8_Witness ==
    /\ last.op = "len"
    /\ last.arg = <<99, 97, 102, 233>>
    /\ last.out = 5
    /\ ~last.empty

\* C9: no step changes the content of a buffer that a handle refers to before and
\* after it, and an owned value taken out of a key has its own allocation.
C9_Immutable ==
    [][/\ \A b \in BufIds :
            (Count(b) > 0 /\ handles'[b].key + handles'[b].bytes > 0) =>
                /\ heap'[b].st = heap[b].st
                /\ heap'[b].data = heap[b].data
       /\ owned'.loc = 0]_vars

\* the boxed copy of a key has been overwritten and the key reads as before
C9_Witness ==
    /\ owned.kind = "Box"
    /\ owned.data = <<255, 169>>
    /\ \E b \in BufIds : handles[b].key > 0 /\ heap[b].data = <<195, 169>>

\* C10: a buffer is live as long as a handle refers to it, its count is the number
\* of handles, reads see the content it was given, a buffer without handles is
\* in the hands of the thread that frees it, and it is then freed.
C10_Safe ==
    /\ \A b \in BufIds :
        /\ Count(b) > 0 =>
            /\ heap[b].st = "live"
            /\ heap[b].rc = Count(b)
            /\ heap[b].data = heap[b].init
        /\ (heap[b].st = "live" /\ Count(b) = 0) <=> b \in freeing
    /\ last.op = "as_str" => last.out = Chars(heap[last.buf].init)
    /\ last.op = "read_bytes" => last.out = heap[last.buf].init

C10_Lifetime ==
    /\ []C10_Safe
    /\ \A b \in BufIds : (b \in freeing) ~> (heap[b].st = "free")

\* the last handle of one buffer is gone and the buffer not yet freed, while
\* another buffer is shared by two handles
C10_Witness ==
    \E b \in BufIds, c \in BufIds :
        /\ b \in freeing
        /\ heap[c].rc = 2
        /\ handles[c].key = 1
        /\ handles[c].bytes = 1

====
